---- MODULE Spec2Model ----
(***************************************************************************)
(* The price-synchronization engine of the OSRS price tracker.             *)
(*                                                                         *)
(* One synchronization cycle is backend/database.py's _update_from_osrs_api *)
(* (quoted in FAQ.md): fetch the latest prices, read the current prices,   *)
(* detect the changes by timestamp, batch-update the prices table in one   *)
(* transaction, emit price_update, refresh the items_cache key.  The entry *)
(* protocol of maybeSynchronize() (skip when the lock is held, skip when   *)
(* the cache key is still alive, try-acquire) and the failure exits are    *)
(* not part of the quoted code; they follow the specification, sections    *)
(* 4.2 and 7.                                                              *)
(*                                                                         *)
(* Every call of maybeSynchronize() is a process of the model: Calls is    *)
(* the set of calls made during a run, each made once.                     *)
(***************************************************************************)
EXTENDS Integers, Sequences, FiniteSets, TLC

\* Number of calls of maybeSynchronize() in a run.
MaxCalls == 2

Calls == 1..MaxCalls
NoCaller == 0

\* Item identifiers of the catalog (the ids of the specification's scenarios).
Ids == {2, 5}

\* An identifier with no entry in the catalog.
UnknownId == 7

\* A timestamp or price that is absent, null or 0 ("... or 0" in the code).
Null == 0

(***************************************************************************)
(* Data.  A candidate is one entry of the /latest payload; a row is one    *)
(* row of the prices table.  Maps are functions whose domain is the set of *)
(* identifiers present.                                                    *)
(***************************************************************************)
Candidate(h, ht, l, lt) == [high |-> h, highTime |-> ht, low |-> l, lowTime |-> lt]

Row(hp, ht, lp, lt) == [high_price |-> hp, high_time |-> ht, low_price |-> lp, low_time |-> lt]

\* The candidates the external source may report for an identifier: a first
\* observation; a newer high (at a lower price) with an older low; a newer
\* low alone; the first observation's timestamps with other prices; and an
\* entry without timestamps.
Candidates ==
    { Candidate(199, 1000, 197, 1005),
      Candidate(197, 1005, 192, 1000),
      Candidate(199, 1000, 192, 1010),
      Candidate(195, 1000, 195, 1005),
      Candidate(199, Null, 197, Null) }

EmptyMap == [i \in {} |-> Null]

\* Every payload of the external source: any identifiers, any candidates.
Snapshots == UNION { [S -> Candidates] : S \in SUBSET Ids }

\* The payloads in which the source may also report an identifier that the
\* catalog lacks, with a first observation or without timestamps.
CatalogSnapshots ==
    UNION { [S -> Candidates] : S \in SUBSET Ids } \cup
    { snap \in UNION { [S \cup {UnknownId} -> Candidates] : S \in SUBSET Ids } :
        snap[UnknownId] \in {Candidate(199, 1000, 197, 1005), Candidate(199, Null, 197, Null)} }

VARIABLES
    pc,             \* pc[c]: where call c of maybeSynchronize() stands
    lock,           \* price_update_lock: the call holding it, or NoCaller
    fresh,          \* TRUE while the items_cache key is alive (not due)
    store,          \* the committed rows of the prices table
    latest_prices,  \* the running cycle's snapshot
    current_prices, \* the running cycle's read of the prices table
    updated_items,  \* the running cycle's ChangeSet
    txn,            \* identifiers written so far by the open transaction
    emitted,        \* the price_update messages emitted so far
    source,         \* what is known of the external source's payload
    mounted,        \* the client: useItems and useSocket are mounted
    connected,      \* the client: the socket is connected
    heard,          \* the client: how many of `emitted` its socket is past
    fetches,        \* the client: its fetchItems calls in flight, oldest first
    items,          \* the client: useItems' items
    isLoading,      \* the client: useItems' isLoading
    error,          \* the client: useItems' error
    lastUpdated,    \* the client: useItems' lastUpdated, as a count of loads
    tableItems,     \* ItemsTable: the array it gets as the items prop, in order
    sortField,      \* ItemsTable: sortField
    sortDirection,  \* ItemsTable: sortDirection
    filterText,     \* ItemsTable: filterText, as a sequence of characters
    showMembersOnly,        \* ItemsTable: showMembersOnly
    showPricedOnly,         \* ItemsTable: showPricedOnly
    filteredAndSortedItems, \* ItemsTable: the value of the useMemo
    rendered        \* ItemsTable: the component has rendered

\* The state of ItemsTable (part_001 335-401).
tableVars == <<tableItems, sortField, sortDirection, filterText, showMembersOnly,
               showPricedOnly, filteredAndSortedItems, rendered>>

\* The state of the hooks (part_001: useSocket, useItems).
hookVars == <<mounted, connected, heard, fetches, items, isLoading, error, lastUpdated>>

\* The state of the client.
clientVars == <<hookVars, tableVars>>

vars == <<pc, lock, fresh, store, latest_prices, current_prices, updated_items, txn, emitted,
          source, clientVars>>

\* The stages of a cycle, in pc: Fetching, Diffing, Persisting, Notifying.
CycleStages == {"fetch", "diff", "persist", "notify", "refresh"}

\* How a call ended.
Outcomes == {"skipped", "fetchFailed", "writeFailed", "synced"}

(***************************************************************************)
(* Change Detector.                                                        *)
(***************************************************************************)
\* current_data.get('high_time', 0) or 0, current_data being {} for an
\* identifier without a row.
CurrentHighTime(current, id) ==
    IF id \in DOMAIN current THEN current[id].high_time ELSE Null

CurrentLowTime(current, id) ==
    IF id \in DOMAIN current THEN current[id].low_time ELSE Null

CurrentHighPrice(current, id) ==
    IF id \in DOMAIN current THEN current[id].high_price ELSE Null

\* A test that compares prices: a change is a higher price.
IsChangedByPrice(current, latest, id) ==
    latest[id].high > CurrentHighPrice(current, id)

\* A test that counts an equal timestamp as a change.
IsChangedOrEqual(current, latest, id) ==
    latest[id].highTime >= CurrentHighTime(current, id)

\* The test of _detect_price_changes: the high timestamp alone.
IsChanged(current, latest, id) ==
    latest[id].highTime > CurrentHighTime(current, id)

\* _detect_price_changes(current_prices, latest_prices): the entries of
\* latest_prices that pass the test, each with the whole candidate.
DetectPriceChanges(current, latest) ==
    LET changed == { id \in DOMAIN latest : IsChanged(current, latest, id) }
    IN  [id \in changed |-> latest[id]]

(***************************************************************************)
(* Persistent Store: the batch update.                                     *)
(***************************************************************************)
\* A batch update that writes the newer prices and leaves the timestamps.
UpsertPriceOnly(rows, id, cand) ==
    LET hNew == cand.highTime > CurrentHighTime(rows, id)
        lNew == cand.lowTime > CurrentLowTime(rows, id)
        old  == IF id \in DOMAIN rows THEN rows[id] ELSE Row(Null, Null, Null, Null)
    IN  Row(IF hNew THEN cand.high ELSE old.high_price, old.high_time,
            IF lNew THEN cand.low ELSE old.low_price, old.low_time)

\* A batch update that replaces the whole row by the candidate.
UpsertWholeRow(rows, id, cand) ==
    Row(cand.high, cand.highTime, cand.low, cand.lowTime)

\* The row an identifier has after the upsert of candidate cand: each half
\* (price and timestamp together) is overwritten only when its timestamp
\* strictly advanced.
UpsertRow(rows, id, cand) ==
    LET hNew == cand.highTime > CurrentHighTime(rows, id)
        lNew == cand.lowTime > CurrentLowTime(rows, id)
        old  == IF id \in DOMAIN rows THEN rows[id] ELSE Row(Null, Null, Null, Null)
    IN  Row(IF hNew THEN cand.high ELSE old.high_price,
            IF hNew THEN cand.highTime ELSE old.high_time,
            IF lNew THEN cand.low ELSE old.low_price,
            IF lNew THEN cand.lowTime ELSE old.low_time)

\* A batch update that rebuilds the table from the rows it writes: an
\* identifier it does not write has no row afterwards.
WriteRowsReplacing(rows, changes, ids) ==
    [id \in ids |-> UpsertRow(rows, id, changes[id])]

\* The table after the rows of `changes` whose identifier is in `ids` are
\* written.
WriteRows(rows, changes, ids) ==
    [id \in DOMAIN rows \cup ids |->
        IF id \in ids THEN UpsertRow(rows, id, changes[id]) ELSE rows[id]]

\* A batch update without a transaction: the rows written stay.
RolledBackPartly(rows, changes, written) == WriteRows(rows, changes, written)

\* The committed rows after a transaction that wrote the identifiers
\* `written` rolls back: none of its rows.
RolledBack(rows, changes, written) == rows

\* A batch update whose rows are visible as they are written.
ReaderViewUncommitted(rows, changes, written) == WriteRows(rows, changes, written)

\* A read that returns the rows of the cycle under way, ChangeSet included.
ReaderViewInFlight(rows, changes, written) == WriteRows(rows, changes, DOMAIN changes)

\* What a reader of the prices table sees while a transaction has written
\* the identifiers `written`: the committed rows only.
ReaderView(rows, changes, written) == rows

(***************************************************************************)
(* Notifier.                                                               *)
(***************************************************************************)
RECURSIVE KeyList(_)
\* list(updated_items.keys()), in ascending identifier order.
KeyList(S) ==
    IF S = {} THEN << >>
    ELSE LET m == CHOOSE x \in S : \A y \in S : x <= y
         IN  <<m>> \o KeyList(S \ {m})

\* The price_update message of notify_price_updates.
PriceUpdate(updated_item_ids) ==
    [type |-> "price_update",
     updated_items |-> updated_item_ids,
     count |-> Len(updated_item_ids)]

\* useItems' error when no fetch has failed since the last one started.
NoError == "null"

(***************************************************************************)
(* Initial state: process start.  The cache key does not exist (a refresh  *)
(* is due), the lock is free, the prices table is empty.                   *)
(***************************************************************************)
\* A process that starts with the cache key set, as after a refresh.
InitAlive ==
    /\ pc = [c \in Calls |-> "idle"]
    /\ lock = NoCaller
    /\ fresh = TRUE
    /\ store = EmptyMap
    /\ latest_prices = EmptyMap
    /\ current_prices = EmptyMap
    /\ updated_items = EmptyMap
    /\ txn = {}
    /\ emitted = << >>
    /\ source = {}
    /\ mounted = FALSE
    /\ connected = FALSE
    /\ heard = 0
    /\ fetches = << >>
    /\ items = EmptyMap
    /\ isLoading = FALSE
    /\ error = NoError
    /\ lastUpdated = 0
    /\ tableItems = << >>
    /\ sortField = "name"
    /\ sortDirection = "asc"
    /\ filterText = << >>
    /\ showMembersOnly = FALSE
    /\ showPricedOnly = FALSE
    /\ filteredAndSortedItems = << >>
    /\ rendered = FALSE

Init ==
    /\ pc = [c \in Calls |-> "idle"]
    /\ lock = NoCaller
    /\ fresh = FALSE
    /\ store = EmptyMap
    /\ latest_prices = EmptyMap
    /\ current_prices = EmptyMap
    /\ updated_items = EmptyMap
    /\ txn = {}
    /\ emitted = << >>
    /\ source = {}
    /\ mounted = FALSE
    /\ connected = FALSE
    /\ heard = 0
    /\ fetches = << >>
    /\ items = EmptyMap
    /\ isLoading = FALSE
    /\ error = NoError
    /\ lastUpdated = 0
    /\ tableItems = << >>
    /\ sortField = "name"
    /\ sortDirection = "asc"
    /\ filterText = << >>
    /\ showMembersOnly = FALSE
    /\ showPricedOnly = FALSE
    /\ filteredAndSortedItems = << >>
    /\ rendered = FALSE

(***************************************************************************)
(* maybeSynchronize(): the entry protocol.                                 *)
(***************************************************************************)
\* A protocol that never looks at the lock.
LockIgnored == TRUE

\* The lock can be taken.
LockFree == lock = NoCaller

\* A protocol that never looks at the cache key.
AlwaysDue == TRUE

\* isDue(): the items_cache key has expired or never existed.
IsDue == ~fresh

\* A request handler or the timer calls maybeSynchronize().  Calls are made
\* in the order of their numbers.
Call(c) ==
    /\ pc[c] = "idle"
    /\ \A d \in Calls : d < c => pc[d] # "idle"
    /\ pc' = [pc EXCEPT ![c] = "checkLock"]
    /\ UNCHANGED <<lock, fresh, store, latest_prices, current_prices, updated_items, txn, emitted, source, clientVars>>

\* Step 1: return at once when the lock is held.
CheckLock(c) ==
    /\ pc[c] = "checkLock"
    /\ pc' = [pc EXCEPT ![c] = IF LockFree THEN "acquire" ELSE "skipped"]
    /\ UNCHANGED <<lock, fresh, store, latest_prices, current_prices, updated_items, txn, emitted, source, clientVars>>

\* Steps 2 and 3 with a blocking mutex: the caller waits for the lock.
AcquireBlocking(c) ==
    /\ pc[c] = "acquire"
    /\ LockFree
    /\ IF IsDue
       THEN /\ lock' = c
            /\ pc' = [pc EXCEPT ![c] = "fetch"]
       ELSE /\ lock' = lock
            /\ pc' = [pc EXCEPT ![c] = "skipped"]
    /\ UNCHANGED <<fresh, store, latest_prices, current_prices, updated_items, txn, emitted, source, clientVars>>

\* Steps 2 and 3: return at once when no refresh is due; otherwise
\* try-acquire, and return when another caller won the race.  The due check
\* and the try-acquire read and write the same CycleState with no suspension
\* point between them.
TryAcquire(c) ==
    /\ pc[c] = "acquire"
    /\ IF IsDue /\ LockFree
       THEN /\ lock' = c
            /\ pc' = [pc EXCEPT ![c] = "fetch"]
       ELSE /\ lock' = lock
            /\ pc' = [pc EXCEPT ![c] = "skipped"]
    /\ UNCHANGED <<fresh, store, latest_prices, current_prices, updated_items, txn, emitted, source, clientVars>>

(***************************************************************************)
(* The cycle: _update_from_osrs_api.                                       *)
(***************************************************************************)
\* How a cycle ended that left through an exception of the notifier or was
\* cancelled at shutdown.
Abandoned == {"notifyFailed", "cancelled"}

\* A cycle that releases the lock by hand, on its normal return only.
EndCycleReleasingOnReturn(c, outcome) ==
    /\ pc' = [pc EXCEPT ![c] = outcome]
    /\ lock' = IF outcome = "synced" THEN NoCaller ELSE lock
    /\ latest_prices' = EmptyMap
    /\ current_prices' = EmptyMap
    /\ updated_items' = EmptyMap
    /\ txn' = {}

\* A cycle that ends without releasing the lock.
EndCycleHoldingLock(c, outcome) ==
    /\ pc' = [pc EXCEPT ![c] = outcome]
    /\ lock' = lock
    /\ latest_prices' = EmptyMap
    /\ current_prices' = EmptyMap
    /\ updated_items' = EmptyMap
    /\ txn' = {}

\* The cycle ends: its locals go, the lock is released.
EndCycle(c, outcome) ==
    /\ pc' = [pc EXCEPT ![c] = outcome]
    /\ lock' = NoCaller
    /\ latest_prices' = EmptyMap
    /\ current_prices' = EmptyMap
    /\ updated_items' = EmptyMap
    /\ txn' = {}

\* Step 1 of the cycle: the fetch returns a snapshot.
FetchOk(c) ==
    /\ pc[c] = "fetch"
    /\ \E snap \in Snapshots : latest_prices' = snap
    /\ pc' = [pc EXCEPT ![c] = "diff"]
    /\ UNCHANGED <<lock, fresh, store, current_prices, updated_items, txn, emitted, source, clientVars>>

\* Step 1 of the cycle where the external source does not change during the
\* run: every fetch returns the payload of the first one.
FetchUnchanged(c) ==
    /\ pc[c] = "fetch"
    /\ \E snap \in Snapshots :
          /\ source = {} \/ snap \in source
          /\ latest_prices' = snap
          /\ source' = {snap}
    /\ pc' = [pc EXCEPT ![c] = "diff"]
    /\ UNCHANGED <<lock, fresh, store, current_prices, updated_items, txn, emitted, clientVars>>

\* Step 1 of the cycle where the source may report an identifier that the
\* catalog lacks.
FetchCatalog(c) ==
    /\ pc[c] = "fetch"
    /\ \E snap \in CatalogSnapshots : latest_prices' = snap
    /\ pc' = [pc EXCEPT ![c] = "diff"]
    /\ UNCHANGED <<lock, fresh, store, current_prices, updated_items, txn, emitted, source, clientVars>>

\* A fetch without a timeout: it ends when the source answers, never before.
FetchWithoutTimeout(c) ==
    /\ pc[c] = "fetch"
    /\ FALSE
    /\ EndCycle(c, "fetchFailed")
    /\ UNCHANGED <<fresh, store, emitted, source, clientVars>>

\* A failed fetch whose exception reaches the read that triggered the cycle.
FetchFailSurfacing(c) ==
    /\ pc[c] = "fetch"
    /\ EndCycle(c, "fetchFailed")
    /\ fetches' = [i \in DOMAIN fetches |->
                     IF fetches[i].call = c
                     THEN [fetches[i] EXCEPT !.status = "error"]
                     ELSE fetches[i]]
    /\ UNCHANGED <<fresh, store, emitted, source, tableVars, mounted, connected, heard, items,
                   isLoading, error, lastUpdated>>

\* A failed fetch after which the cache key is refreshed all the same.
FetchFailRefreshing(c) ==
    /\ pc[c] = "fetch"
    /\ fresh' = TRUE
    /\ EndCycle(c, "fetchFailed")
    /\ UNCHANGED <<store, emitted, source, clientVars>>

\* The fetch fails (timeout, transport error, malformed payload).
FetchFail(c) ==
    /\ pc[c] = "fetch"
    /\ EndCycle(c, "fetchFailed")
    /\ UNCHANGED <<fresh, store, emitted, source, clientVars>>

\* A cycle that writes and notifies whatever its ChangeSet.
NextStageUnconditional(stage, changes) ==
    CASE stage = "diff"    -> "persist"
      [] stage = "persist" -> "notify"
      [] stage = "notify"  -> "refresh"

\* A cycle that notifies before it writes.
NextStageNotifyFirst(stage, changes) ==
    CASE stage = "diff"    -> IF DOMAIN changes # {} THEN "notify" ELSE "refresh"
      [] stage = "notify"  -> "persist"
      [] stage = "persist" -> "refresh"

\* The order of the steps of _update_from_osrs_api: the batch update and
\* the notification only "if updated_items", the cache refresh last.
NextStage(stage, changes) ==
    CASE stage = "diff"    -> IF DOMAIN changes # {} THEN "persist" ELSE "refresh"
      [] stage = "persist" -> "notify"
      [] stage = "notify"  -> "refresh"

\* Steps 2 and 3 of the cycle: read the current prices and detect the changes.
Diff(c) ==
    /\ pc[c] = "diff"
    /\ current_prices' = store
    /\ updated_items' = DetectPriceChanges(store, latest_prices)
    /\ pc' = [pc EXCEPT ![c] = NextStage("diff", updated_items')]
    /\ UNCHANGED <<lock, fresh, store, latest_prices, txn, emitted, source, clientVars>>

\* Step 4, inside the transaction: executemany writes one more row.  The
\* table accepts the row of an identifier of the catalog only
\* (item_id REFERENCES items(id)).
TxWrite(c) ==
    /\ pc[c] = "persist"
    /\ \E id \in (DOMAIN updated_items \ txn) \cap Ids : txn' = txn \cup {id}
    /\ UNCHANGED <<pc, lock, fresh, store, latest_prices, current_prices, updated_items, emitted, source, clientVars>>

\* Step 4: the transaction commits once every row is written.
TxCommit(c) ==
    /\ pc[c] = "persist"
    /\ txn = DOMAIN updated_items
    /\ store' = WriteRows(store, updated_items, txn)
    /\ txn' = {}
    /\ pc' = [pc EXCEPT ![c] = NextStage("persist", updated_items)]
    /\ UNCHANGED <<lock, fresh, latest_prices, current_prices, updated_items, emitted, source, clientVars>>

\* The batch update fails or is interrupted, before or after some of its
\* rows are written: the transaction rolls back.
TxAbort(c) ==
    /\ pc[c] = "persist"
    /\ store' = RolledBack(store, updated_items, txn)
    /\ EndCycle(c, "writeFailed")
    /\ UNCHANGED <<fresh, emitted, source, clientVars>>

\* A notifier that emits one price_update for each changed identifier.
NotifyPerItem(c) ==
    /\ pc[c] = "notify"
    /\ LET ids == KeyList(DOMAIN updated_items)
       IN  emitted' = emitted \o [i \in 1..Len(ids) |-> PriceUpdate(<<ids[i]>>)]
    /\ pc' = [pc EXCEPT ![c] = NextStage("notify", updated_items)]
    /\ UNCHANGED <<lock, fresh, store, latest_prices, current_prices, updated_items, txn, source, clientVars>>

\* Step 5: emit price_update with the changed identifiers.
Notify(c) ==
    /\ pc[c] = "notify"
    /\ emitted' = Append(emitted, PriceUpdate(KeyList(DOMAIN updated_items)))
    /\ pc' = [pc EXCEPT ![c] = NextStage("notify", updated_items)]
    /\ UNCHANGED <<lock, fresh, store, latest_prices, current_prices, updated_items, txn, source, clientVars>>

\* A cycle that waits, before its last step, until the connected subscriber
\* has taken every message emitted.
RefreshAfterAck(c) ==
    /\ pc[c] = "refresh"
    /\ connected => heard = Len(emitted)
    /\ fresh' = TRUE
    /\ EndCycle(c, "synced")
    /\ UNCHANGED <<store, emitted, source, clientVars>>

\* Step 6: reset the cache key's TTL; the function returns and the lock is
\* released.
Refresh(c) ==
    /\ pc[c] = "refresh"
    /\ fresh' = TRUE
    /\ EndCycle(c, "synced")
    /\ UNCHANGED <<store, emitted, source, clientVars>>

\* Step 5 raises: the exception leaves _update_from_osrs_api before the
\* cache refresh and leaves the `async with` block, which releases the lock.
NotifyFail(c) ==
    /\ pc[c] = "notify"
    /\ EndCycle(c, "notifyFailed")
    /\ UNCHANGED <<fresh, store, emitted, source, clientVars>>

\* The task of the cycle is cancelled at process shutdown, at any of its
\* suspension points: an open transaction rolls back, the `async with`
\* block releases the lock.
Cancel(c) ==
    /\ pc[c] \in CycleStages
    /\ store' = RolledBack(store, updated_items, txn)
    /\ EndCycle(c, "cancelled")
    /\ UNCHANGED <<fresh, emitted, source, clientVars>>

\* The TTL of the items_cache key (120 s) runs out.
Expire ==
    /\ fresh
    /\ fresh' = FALSE
    /\ UNCHANGED <<pc, lock, store, latest_prices, current_prices, updated_items, txn, emitted, source, clientVars>>

\* The TTL of the items_cache key runs out and Redis publishes the expired
\* event of its keyspace notifications: the subscriber calls
\* maybeSynchronize().
ExpiredEvent(c) ==
    /\ fresh
    /\ fresh' = FALSE
    /\ pc[c] = "idle"
    /\ \A d \in Calls : d < c => pc[d] # "idle"
    /\ pc' = [pc EXCEPT ![c] = "checkLock"]
    /\ UNCHANGED <<lock, store, latest_prices, current_prices, updated_items, txn, emitted, source, clientVars>>

CallStep(c) ==
    \/ Call(c)
    \/ CheckLock(c)
    \/ TryAcquire(c)

CycleStep(c) ==
    \/ FetchOk(c)
    \/ FetchFail(c)
    \/ Diff(c)
    \/ TxWrite(c)
    \/ TxCommit(c)
    \/ TxAbort(c)
    \/ Notify(c)
    \/ Refresh(c)

Next ==
    \/ \E c \in Calls : CallStep(c)
    \/ \E c \in Calls : CycleStep(c)
    \/ Expire

Spec == Init /\ [][Next]_vars

\* A burst of concurrent calls: every call is made before any call has
\* acquired the lock, hence while a refresh is due, and the cache key does
\* not expire during the run.
BurstCall(c) ==
    /\ \A d \in Calls : pc[d] \in {"idle", "checkLock", "acquire"}
    /\ Call(c)

NextBurst ==
    \/ \E c \in Calls : BurstCall(c)
    \/ \E c \in Calls : CheckLock(c)
    \/ \E c \in Calls : TryAcquire(c)
    \/ \E c \in Calls : CycleStep(c)

SpecBurst == Init /\ [][NextBurst]_vars

\* Runs over an unchanged source: cycle after cycle fetches the same payload.
NextRepeat ==
    \/ \E c \in Calls : CallStep(c)
    \/ \E c \in Calls : FetchUnchanged(c)
    \/ \E c \in Calls : FetchFail(c)
    \/ \E c \in Calls : Diff(c)
    \/ \E c \in Calls : TxWrite(c)
    \/ \E c \in Calls : TxCommit(c)
    \/ \E c \in Calls : TxAbort(c)
    \/ \E c \in Calls : Notify(c)
    \/ \E c \in Calls : Refresh(c)
    \/ Expire

SpecRepeat == Init /\ [][NextRepeat]_vars

\* Runs in which the source may report an identifier without a catalog
\* entry.
NextCatalog ==
    \/ \E c \in Calls : CallStep(c)
    \/ \E c \in Calls : FetchCatalog(c)
    \/ \E c \in Calls : FetchFail(c)
    \/ \E c \in Calls : Diff(c)
    \/ \E c \in Calls : TxWrite(c)
    \/ \E c \in Calls : TxCommit(c)
    \/ \E c \in Calls : TxAbort(c)
    \/ \E c \in Calls : Notify(c)
    \/ \E c \in Calls : Refresh(c)
    \/ Expire

SpecCatalog == Init /\ [][NextCatalog]_vars

\* Runs in which the external source and the database may never answer:
\* nothing obliges the fetch to return a payload or the batch update to
\* write or commit.  The timeouts of the two calls run out, and the steps
\* of the cycle that wait for nothing are taken.
SpecStall ==
    /\ Init
    /\ [][NextRepeat]_vars
    /\ \A c \in Calls : WF_vars(FetchFail(c) \/ TxAbort(c))
    /\ \A c \in Calls : WF_vars(Diff(c) \/ Notify(c) \/ Refresh(c))

\* The server with the subscriber of the expired events.  Reads may arrive
\* and call, or never arrive.
NextIdle ==
    \/ \E c \in Calls : CallStep(c)
    \/ \E c \in Calls : CycleStep(c)
    \/ \E c \in Calls : ExpiredEvent(c)

\* Time passes (the key expires and the event is delivered) and a call that
\* was made, like a cycle that has started, takes its steps.  Nothing
\* obliges a reader to read.
SpecIdle ==
    /\ Init
    /\ [][NextIdle]_vars
    /\ WF_vars(\E c \in Calls : ExpiredEvent(c))
    /\ \A c \in Calls : WF_vars(CheckLock(c) \/ TryAcquire(c))
    /\ \A c \in Calls : WF_vars(CycleStep(c))

\* Every way out of a cycle over an unchanged source: its steps, an
\* exception of the notifier, a cancellation.
ExitStep(c) ==
    \/ FetchUnchanged(c)
    \/ FetchFail(c)
    \/ Diff(c)
    \/ TxWrite(c)
    \/ TxCommit(c)
    \/ TxAbort(c)
    \/ Notify(c)
    \/ Refresh(c)
    \/ NotifyFail(c)
    \/ Cancel(c)

NextExit ==
    \/ \E c \in Calls : CallStep(c)
    \/ \E c \in Calls : ExitStep(c)
    \/ Expire

\* A cycle that has started takes its steps: each of them returns, raises
\* or times out.  Nothing obliges a caller to call.
SpecExit == Init /\ [][NextExit]_vars /\ \A c \in Calls : WF_vars(ExitStep(c))

(***************************************************************************)
(* The read API (routes.py: get_items, quoted in FAQ.md) and the client    *)
(* (api.ts, useSocket, useItems).  A fetchItems call of the client is a    *)
(* record of `fetches` from its start to its completion; the server        *)
(* answers it at some moment in between.                                   *)
(***************************************************************************)
serverVars == <<lock, fresh, store, latest_prices, current_prices, updated_items, txn,
                emitted, source>>

\* The rows (one or none) of an identifier in a table.
RowOf(rows, id) == IF id \in DOMAIN rows THEN {rows[id]} ELSE {}

\* The response of GET /api/items built from what the read of the prices
\* table returned.
GetItems(rows) == [status |-> "ok", items |-> rows, source |-> "database"]

\* The response of GET /api/items/{id}.
GetItem(rows, id) ==
    IF id \in Ids
    THEN [status |-> "ok", item |-> RowOf(rows, id)]
    ELSE [status |-> "NotFound", item |-> {}]

\* ApiService.fetchItem: what the caller gets for a response.
FetchItem(response) ==
    CASE response.status = "ok"       -> [error |-> NoError, item |-> response.item]
      [] response.status = "NotFound" -> [error |-> "Item not found", item |-> {}]
      [] OTHER                        -> [error |-> "HTTP error!", item |-> {}]

\* A fetchItems call that has sent its request: `by` is k for the refetch
\* that the k-th price_update started and 0 for a fetch that no price_update
\* started (the initial fetch, a manual refresh).  `superseded` records that
\* a fetchItems call started after this one has already set the items.
NewFetch(by) ==
    [by |-> by, status |-> "pending", items |-> EmptyMap, call |-> NoCaller,
     superseded |-> FALSE]

\* The sequence q without its i-th element.
Without(q, i) == SubSeq(q, 1, i - 1) \o SubSeq(q, i + 1, Len(q))

\* fetchItems up to its await: setIsLoading(true), setError(null), request.
StartFetch(by) ==
    /\ isLoading' = TRUE
    /\ error' = NoError
    /\ fetches' = Append(fetches, NewFetch(by))
    /\ UNCHANGED <<items, lastUpdated>>

\* The page loads: the hooks mount, the initial fetch starts.
Mount ==
    /\ ~mounted
    /\ mounted' = TRUE
    /\ StartFetch(0)
    /\ UNCHANGED <<pc, serverVars, tableVars, connected, heard>>

\* The socket connects or reconnects: it gets the messages emitted from now
\* on, none of the earlier ones.
Connect ==
    /\ mounted
    /\ ~connected
    /\ connected' = TRUE
    /\ heard' = Len(emitted)
    /\ UNCHANGED <<pc, serverVars, tableVars, mounted, fetches, items, isLoading, error, lastUpdated>>

Disconnect ==
    /\ connected
    /\ connected' = FALSE
    /\ UNCHANGED <<pc, serverVars, tableVars, mounted, heard, fetches, items, isLoading, error, lastUpdated>>

\* A socket handler that records the message and refetches nothing.
ReceiveOnly ==
    /\ connected
    /\ heard < Len(emitted)
    /\ heard' = heard + 1
    /\ UNCHANGED <<pc, serverVars, tableVars, mounted, connected, fetches, items, isLoading, error,
                   lastUpdated>>

\* The socket receives the next price_update: setLastUpdate, and the effect
\* on lastUpdate refetches.
Receive ==
    /\ connected
    /\ heard < Len(emitted)
    /\ heard' = heard + 1
    /\ StartFetch(heard + 1)
    /\ UNCHANGED <<pc, serverVars, tableVars, mounted, connected>>

\* A read that waits for the cycle under way before it reads.
ServeReadWaiting(i) ==
    /\ i \in 1..Len(fetches)
    /\ fetches[i].status = "pending"
    /\ LockFree
    /\ LET idle == { c \in Calls : pc[c] = "idle" }
           c    == CHOOSE x \in idle : \A y \in idle : x <= y
           resp == GetItems(ReaderView(store, updated_items, txn))
       IN  /\ fetches' = [fetches EXCEPT ![i] =
                             [by |-> @.by, status |-> resp.status, items |-> resp.items,
                              call |-> IF idle # {} THEN c ELSE NoCaller,
                              superseded |-> @.superseded]]
           /\ pc' = IF idle # {} THEN [pc EXCEPT ![c] = "checkLock"] ELSE pc
    /\ UNCHANGED <<serverVars, tableVars, mounted, connected, heard, items, isLoading, error, lastUpdated>>

\* get_items answers a request: it reads the prices table and triggers the
\* cache check in the background (a call of maybeSynchronize(), as long as
\* the run has calls left), without waiting for it.
ServeRead(i) ==
    /\ i \in 1..Len(fetches)
    /\ fetches[i].status = "pending"
    /\ LET idle == { c \in Calls : pc[c] = "idle" }
           c    == CHOOSE x \in idle : \A y \in idle : x <= y
           resp == GetItems(ReaderView(store, updated_items, txn))
       IN  /\ fetches' = [fetches EXCEPT ![i] =
                             [by |-> @.by, status |-> resp.status, items |-> resp.items,
                              call |-> IF idle # {} THEN c ELSE NoCaller,
                              superseded |-> @.superseded]]
           /\ pc' = IF idle # {} THEN [pc EXCEPT ![c] = "checkLock"] ELSE pc
    /\ UNCHANGED <<serverVars, tableVars, mounted, connected, heard, items, isLoading, error, lastUpdated>>

\* The fetches in flight once the i-th has set the items: those started
\* before it are superseded.
Supersede(q, i) ==
    [j \in 1..Len(q) |-> IF j < i THEN [q[j] EXCEPT !.superseded = TRUE] ELSE q[j]]

\* fetchItems after its await, the response being there: setItems,
\* setLastUpdated, and setIsLoading(false) in the finally.
Deliver(i) ==
    /\ i \in 1..Len(fetches)
    /\ fetches[i].status = "ok"
    /\ items' = fetches[i].items
    /\ lastUpdated' = lastUpdated + 1
    /\ isLoading' = FALSE
    /\ fetches' = Without(Supersede(fetches, i), i)
    /\ UNCHANGED <<pc, serverVars, tableVars, mounted, connected, heard, error>>

\* A failure handler that also drops the items loaded before.
FetchErrorClearing(i) ==
    /\ i \in 1..Len(fetches)
    /\ error' = "Failed to fetch"
    /\ isLoading' = FALSE
    /\ items' = EmptyMap
    /\ fetches' = Without(fetches, i)
    /\ UNCHANGED <<pc, serverVars, tableVars, mounted, connected, heard, lastUpdated>>

\* fetchItems after its await, the request having failed in transport:
\* setError, and setIsLoading(false) in the finally.
FetchError(i) ==
    /\ i \in 1..Len(fetches)
    /\ error' = "Failed to fetch"
    /\ isLoading' = FALSE
    /\ fetches' = Without(fetches, i)
    /\ UNCHANGED <<pc, serverVars, tableVars, mounted, connected, heard, items, lastUpdated>>

\* The loads and fetches in flight that a run has room for.
MaxLoads == MaxCalls + 1

\* The user clicks Refresh, which is disabled while isLoading, or Try Again
\* in the error banner: refetch calls fetchItems.
Refetch ==
    /\ mounted
    /\ ~isLoading \/ error # NoError
    /\ lastUpdated + Len(fetches) < MaxLoads
    /\ StartFetch(0)
    /\ UNCHANGED <<pc, serverVars, tableVars, mounted, connected, heard>>

ClientStep ==
    \/ Mount
    \/ Connect
    \/ Disconnect
    \/ Receive
    \/ \E i \in 1..Len(fetches) : ServeRead(i)
    \/ \E i \in 1..Len(fetches) : Deliver(i)
    \/ \E i \in 1..Len(fetches) : FetchError(i)

\* The server and one client; every call of maybeSynchronize() is made by a
\* read of the client.
NextClient ==
    \/ ClientStep
    \/ \E c \in Calls : CheckLock(c)
    \/ \E c \in Calls : TryAcquire(c)
    \/ \E c \in Calls : CycleStep(c)
    \/ Expire

SpecClient == Init /\ [][NextClient]_vars

\* The server and the initial fetch of one client, beside the calls that the
\* reads of others make, over an unchanged source and with every way out of
\* a cycle.
NextRead ==
    \/ Mount
    \/ \E i \in 1..Len(fetches) : ServeRead(i)
    \/ \E i \in 1..Len(fetches) : Deliver(i)
    \/ \E i \in 1..Len(fetches) : FetchError(i)
    \/ \E c \in Calls : CallStep(c)
    \/ \E c \in Calls : ExitStep(c)
    \/ Expire

SpecRead == Init /\ [][NextRead]_vars

\* The steps of a cycle over an unchanged source.
RepeatStep(c) ==
    \/ FetchUnchanged(c)
    \/ FetchFail(c)
    \/ Diff(c)
    \/ TxWrite(c)
    \/ TxCommit(c)
    \/ TxAbort(c)
    \/ Notify(c)
    \/ Refresh(c)

NextNotify ==
    \/ ClientStep
    \/ \E c \in Calls : CheckLock(c)
    \/ \E c \in Calls : TryAcquire(c)
    \/ \E c \in Calls : RepeatStep(c)
    \/ Expire

\* The server and one subscriber, over an unchanged source.  A cycle that
\* has started takes its steps; nothing obliges the subscriber to connect,
\* to stay connected or to take a message.
SpecNotify == Init /\ [][NextNotify]_vars /\ \A c \in Calls : WF_vars(RepeatStep(c))

\* A whole cycle as the client can observe it: the call that a read
\* triggered finds the lock free and a refresh due, fetches the payload of
\* the unchanged source, commits its non-empty ChangeSet, emits the
\* price_update and refreshes the cache, with no step of the client in
\* between.
SyncCycle(c) ==
    /\ pc[c] = "checkLock"
    /\ LockFree
    /\ IsDue
    /\ \E snap \in Snapshots :
          LET changes == DetectPriceChanges(store, snap)
          IN  /\ source = {} \/ snap \in source
              /\ DOMAIN changes # {}
              /\ source' = {snap}
              /\ store' = WriteRows(store, changes, DOMAIN changes)
              /\ emitted' = Append(emitted, PriceUpdate(KeyList(DOMAIN changes)))
    /\ fresh' = TRUE
    /\ pc' = [pc EXCEPT ![c] = "synced"]
    /\ UNCHANGED <<lock, latest_prices, current_prices, updated_items, txn, clientVars>>

\* One client whose user may refresh by hand, and the server as that
\* client observes it.
NextFetch ==
    \/ ClientStep
    \/ Refetch
    \/ \E c \in Calls : SyncCycle(c)

SpecFetch == Init /\ [][NextFetch]_vars

(***************************************************************************)
(* ItemsTable (part_001 335-401): the filtered and sorted view of the      *)
(* items array that useItems holds and App passes as the items prop.       *)
(* Names and filter texts are sequences of characters.                     *)
(***************************************************************************)
\* The columns whose header calls handleSort (part_001 488-501).
SortFields == {"name", "high_price", "low_price", "members", "highalch"}

\* The Item fields that hold a number or null.
NumberFields == {"high_price", "low_price", "highalch"}

\* What the user may type in the filter box: nothing, a blank, a letter of
\* either case.
FilterTexts == {<< >>, <<" ">>, <<"b">>, <<"A">>}

\* An Item (part_002 3-17), with the fields the view reads.
Item(id, name, members, highalch, high, low) ==
    [id |-> id, name |-> name, members |-> members, highalch |-> highalch,
     high_price |-> high, low_price |-> low]

\* The items a response may hold: two share a name, two have no high price.
TableItems ==
    { Item(2, <<"B", "a">>, TRUE, 30, 195, 190),
      Item(5, <<"a", "b">>, FALSE, Null, Null, Null),
      Item(9, <<"b">>, FALSE, 30, 100, Null),
      Item(11, <<"a", "b">>, TRUE, 12, Null, 50) }

\* The arrays a response may hold: some of the items, each once, in any
\* order.
ItemArrays ==
    {a \in UNION {[1..n -> TableItems] : n \in 0..Cardinality(TableItems)} :
        \A i, j \in DOMAIN a : a[i] = a[j] => i = j}

\* A process whose first response has reached ItemsTable, not yet rendered.
InitTable ==
    /\ pc = [c \in Calls |-> "idle"]
    /\ lock = NoCaller
    /\ fresh = FALSE
    /\ store = EmptyMap
    /\ latest_prices = EmptyMap
    /\ current_prices = EmptyMap
    /\ updated_items = EmptyMap
    /\ txn = {}
    /\ emitted = << >>
    /\ source = {}
    /\ mounted = FALSE
    /\ connected = FALSE
    /\ heard = 0
    /\ fetches = << >>
    /\ items = EmptyMap
    /\ isLoading = FALSE
    /\ error = NoError
    /\ lastUpdated = 0
    /\ tableItems \in ItemArrays
    /\ sortField = "name"
    /\ sortDirection = "asc"
    /\ filterText = << >>
    /\ showMembersOnly = FALSE
    /\ showPricedOnly = FALSE
    /\ filteredAndSortedItems = << >>
    /\ rendered = FALSE

\* String.prototype.toLowerCase.
ToLower(ch) == IF ch = "A" THEN "a" ELSE IF ch = "B" THEN "b" ELSE ch

toLowerCase(s) == [i \in 1..Len(s) |-> ToLower(s[i])]

\* String.prototype.trim.
RECURSIVE trimStart(_)
trimStart(s) ==
    IF Len(s) = 0 THEN s ELSE IF Head(s) = " " THEN trimStart(Tail(s)) ELSE s

RECURSIVE trimEnd(_)
trimEnd(s) ==
    IF Len(s) = 0 THEN s
    ELSE IF s[Len(s)] = " " THEN trimEnd(SubSeq(s, 1, Len(s) - 1)) ELSE s

trim(s) == trimEnd(trimStart(s))

\* String.prototype.includes.
includes(s, t) ==
    \E k \in 0..(Len(s) - Len(t)) : SubSeq(s, k + 1, k + Len(t)) = t

\* The order of two sequences of keys: -1, 0 or 1.
LexCompare(ks, kt) ==
    LET n == IF Len(ks) < Len(kt) THEN Len(ks) ELSE Len(kt)
        D == {i \in 1..n : ks[i] # kt[i]}
    IN  IF D # {}
        THEN LET d == CHOOSE i \in D : \A j \in D : i <= j
             IN  IF ks[d] < kt[d] THEN -1 ELSE 1
        ELSE IF Len(ks) < Len(kt) THEN -1
        ELSE IF Len(ks) > Len(kt) THEN 1
        ELSE 0

\* The letter of a character, whatever its case.
LetterKey(ch) == IF ch = " " THEN 0 ELSE IF ToLower(ch) = "a" THEN 1 ELSE 2

\* The case of a character: lower case sorts first.
CaseKey(ch) == IF ch \in {"A", "B"} THEN 1 ELSE 0

\* String.prototype.localeCompare: by letters, then by case.
localeCompare(s, t) ==
    LET byLetter == LexCompare([i \in 1..Len(s) |-> LetterKey(s[i])],
                               [i \in 1..Len(t) |-> LetterKey(t[i])])
    IN  IF byLetter # 0 THEN byLetter
        ELSE LexCompare([i \in 1..Len(s) |-> CaseKey(s[i])],
                        [i \in 1..Len(t) |-> CaseKey(t[i])])

\* aValue === null || aValue === undefined.
IsNull(item, field) == field \in NumberFields /\ item[field] = Null

\* The comparator given to sort.
Compare(a, b, field, direction) ==
    LET comparison ==
            IF field = "name" THEN localeCompare(a.name, b.name)
            ELSE IF field \in NumberFields THEN a[field] - b[field]
            ELSE 0
    IN  IF IsNull(a, field) THEN 1
        ELSE IF IsNull(b, field) THEN -1
        ELSE IF direction = "asc" THEN comparison ELSE 0 - comparison

\* The ways to order n elements.
Orders(n) == {p \in [1..n -> 1..n] : \A i, j \in 1..n : p[i] = p[j] => i = j}

\* The comparator is consistent on the array unless two elements have a
\* null value: it then puts each of the two after the other.
Consistent(arr, field) ==
    Cardinality({i \in DOMAIN arr : IsNull(arr[i], field)}) <= 1

\* Array.prototype.sort: the stable order of a consistent comparator; with
\* an inconsistent one the order is the engine's choice.
SortOrders(arr, field, direction) ==
    IF Consistent(arr, field)
    THEN {p \in Orders(Len(arr)) :
            \A i, j \in 1..Len(arr) : i < j =>
                LET c == Compare(arr[p[i]], arr[p[j]], field, direction)
                IN  c < 0 \/ (c = 0 /\ p[i] < p[j])}
    ELSE Orders(Len(arr))

Sorted(arr, field, direction) ==
    {[i \in 1..Len(arr) |-> arr[p[i]]] : p \in SortOrders(arr, field, direction)}

\* The body of the useMemo: the filters, each of which makes a new array
\* when it is active, then sort, which sorts the array it is called on.
\* Each outcome is the items array afterwards and the value returned.
FilterAndSort(arr, field, direction, text, members, priced) ==
    LET lowerFilter == toLowerCase(text)
        f1 == IF Len(trim(text)) > 0
              THEN SelectSeq(arr, LAMBDA item : includes(toLowerCase(item.name), lowerFilter))
              ELSE arr
        f2 == IF members THEN SelectSeq(f1, LAMBDA item : item.members) ELSE f1
        f3 == IF priced
              THEN SelectSeq(f2, LAMBDA item : item.high_price # Null \/ item.low_price # Null)
              ELSE f2
        isNew == Len(trim(text)) > 0 \/ members \/ priced
    IN  {[items |-> IF isNew THEN arr ELSE s, sorted |-> s] :
            s \in Sorted(f3, field, direction)}

\* A render of ItemsTable with the given state: the useMemo recomputes.
Rerender(field, direction, text, members, priced) ==
    \E r \in FilterAndSort(tableItems, field, direction, text, members, priced) :
        /\ tableItems' = r.items
        /\ filteredAndSortedItems' = r.sorted

\* The first render.
Render ==
    /\ ~rendered
    /\ rendered' = TRUE
    /\ Rerender(sortField, sortDirection, filterText, showMembersOnly, showPricedOnly)
    /\ UNCHANGED <<pc, serverVars, hookVars, sortField, sortDirection, filterText,
                   showMembersOnly, showPricedOnly>>

\* A click on a column header.
handleSort(field) ==
    LET direction == IF sortField = field /\ sortDirection = "asc" THEN "desc" ELSE "asc"
    IN  /\ rendered
        /\ sortField' = field
        /\ sortDirection' = direction
        /\ Rerender(field, direction, filterText, showMembersOnly, showPricedOnly)
        /\ UNCHANGED <<pc, serverVars, hookVars, filterText, showMembersOnly,
                       showPricedOnly, rendered>>

\* The user edits the filter box.
setFilterText(text) ==
    /\ rendered
    /\ text # filterText
    /\ filterText' = text
    /\ Rerender(sortField, sortDirection, text, showMembersOnly, showPricedOnly)
    /\ UNCHANGED <<pc, serverVars, hookVars, sortField, sortDirection, showMembersOnly,
                   showPricedOnly, rendered>>

\* The user ticks or unticks "members only".
setShowMembersOnly(checked) ==
    /\ rendered
    /\ checked # showMembersOnly
    /\ showMembersOnly' = checked
    /\ Rerender(sortField, sortDirection, filterText, checked, showPricedOnly)
    /\ UNCHANGED <<pc, serverVars, hookVars, sortField, sortDirection, filterText,
                   showPricedOnly, rendered>>

\* The user ticks or unticks "priced only".
setShowPricedOnly(checked) ==
    /\ rendered
    /\ checked # showPricedOnly
    /\ showPricedOnly' = checked
    /\ Rerender(sortField, sortDirection, filterText, showMembersOnly, checked)
    /\ UNCHANGED <<pc, serverVars, hookVars, sortField, sortDirection, filterText,
                   showMembersOnly, rendered>>

NextTable ==
    \/ Render
    \/ \E field \in SortFields : handleSort(field)
    \/ \E text \in FilterTexts : setFilterText(text)
    \/ \E checked \in BOOLEAN : setShowMembersOnly(checked)
    \/ \E checked \in BOOLEAN : setShowPricedOnly(checked)

SpecTable == InitTable /\ [][NextTable]_vars

(***************************************************************************)
(* Properties.                                                             *)
(***************************************************************************)
\* The calls whose cycle has performed its external fetch.
Fetched == { c \in Calls : pc[c] \in {"diff", "persist", "notify", "refresh",
                                      "fetchFailed", "writeFailed", "synced"} }

\* The calls whose cycle failed in Fetching or in Persisting.
Failed == { c \in Calls : pc[c] \in {"fetchFailed", "writeFailed"} }

\* The batch-upserts that committed: each is notified right after.
Committed == Len(emitted) + Cardinality({ c \in Calls : pc[c] = "notify" })

\* The batch-upserts that were executed, committed or not.
Upserts == Committed + Cardinality({ c \in Calls : pc[c] \in {"persist", "writeFailed"} })

AllReturned == \A c \in Calls : pc[c] \in Outcomes

\* The call running a cycle, if any.
InCycle == { c \in Calls : pc[c] \in CycleStages }

C2_MutualExclusion ==
    /\ Cardinality(InCycle) <= 1
    /\ \A c \in InCycle : lock = c

C2_Witness ==
    \E c, d \in Calls : pc[c] = "persist" /\ pc[d] = "acquire"

\* C3: monotonicity: no step decreases the persisted highTime or lowTime of
\* an identifier, and no step removes a persisted row.
C3_Monotonic ==
    [][\A id \in DOMAIN store :
          /\ id \in DOMAIN store'
          /\ store'[id].high_time >= store[id].high_time
          /\ store'[id].low_time >= store[id].low_time]_vars

\* A batch-upsert has just committed a candidate whose highTime is newer and
\* whose lowTime is older than the row persisted before it.
C3_Witness ==
    \E c \in Calls, id \in DOMAIN updated_items :
        /\ pc[c] = "notify"
        /\ id \in DOMAIN current_prices
        /\ updated_items[id].highTime > current_prices[id].high_time
        /\ updated_items[id].lowTime < current_prices[id].low_time
        /\ store[id].high_time = updated_items[id].highTime
        /\ store[id].low_time = current_prices[id].low_time

\* What a reader sees of the identifiers of the ChangeSet is the pre-cycle
\* values for all of them, or the new values for all of them.
AllOrNothing(view) ==
    \/ \A id \in DOMAIN updated_items : RowOf(view, id) = RowOf(current_prices, id)
    \/ \A id \in DOMAIN updated_items :
          RowOf(view, id) = {UpsertRow(current_prices, id, updated_items[id])}

\* C4: atomicity: while and after the batch-upsert of a cycle runs, a reader
\* sees all the pre-cycle values or all the new values of the ChangeSet,
\* never a mixture; a batch-upsert that fails part-way leaves what readers
\* see as it was.
C4_Atomic ==
    /\ [](\A c \in Calls : pc[c] \in {"persist", "notify", "refresh"} =>
             AllOrNothing(ReaderView(store, updated_items, txn)))
    /\ [][\A c \in Calls : (pc[c] = "persist" /\ pc'[c] = "writeFailed") =>
             ReaderView(store', updated_items', txn') = ReaderView(store, updated_items, txn)]_vars

\* The transaction has written one of the two rows of its ChangeSet.
C4_Witness ==
    \E c \in Calls :
        /\ pc[c] = "persist"
        /\ Cardinality(DOMAIN updated_items) = 2
        /\ Cardinality(txn) = 1

\* C5: fetch failure: the step in which the fetch of a cycle fails releases
\* the lock, leaves a refresh due, changes no persisted row and emits no
\* notification.
C5_FetchFailure ==
    [][\A c \in Calls : (pc[c] = "fetch" /\ pc'[c] # "fetch" /\ pc'[c] # "diff") =>
          /\ pc'[c] = "fetchFailed"
          /\ lock' = NoCaller
          /\ ~fresh'
          /\ store' = store
          /\ emitted' = emitted]_vars

\* A fetch failed in a cycle that ran over persisted rows.
C5_Witness ==
    \E c \in Calls : pc[c] = "fetchFailed" /\ DOMAIN store # {} /\ lock = NoCaller

C8_CommitBeforeNotify ==
    [][emitted' # emitted =>
          /\ Len(emitted') = Len(emitted) + 1
          /\ LET msg == emitted'[Len(emitted')]
             IN  \A i \in 1..Len(msg.updated_items) :
                    LET id == msg.updated_items[i]
                    IN  /\ id \in DOMAIN updated_items
                        /\ id \in DOMAIN store
                        /\ store[id] = UpsertRow(current_prices, id, updated_items[id])]_vars

\* A price_update listing two identifiers has just been emitted.
C8_Witness ==
    \E c \in Calls :
        /\ pc[c] = "refresh"
        /\ Len(emitted) >= 1
        /\ Len(emitted[Len(emitted)].updated_items) = 2

\* The identifiers of a snapshot with a newer timestamp than the current
\* rows: a newer highTime or a newer lowTime, an absent row or timestamp
\* counting as 0.
Newer(current, latest) ==
    { id \in DOMAIN latest :
        \/ latest[id].highTime > CurrentHighTime(current, id)
        \/ latest[id].lowTime > CurrentLowTime(current, id) }

\* C9 as stated: when a cycle reaches its cache refresh, its ChangeSet (the
\* rows its batch-upsert committed) is the k identifiers of its snapshot with
\* a newer timestamp, and if k > 0 the price_update it emitted lists exactly
\* those identifiers with count = k.
C9_CountAgreement ==
    \A c \in Calls : pc[c] = "refresh" =>
        LET newer == Newer(current_prices, latest_prices)
        IN  /\ DOMAIN updated_items = newer
            /\ newer # {} =>
                  /\ Len(emitted) >= 1
                  /\ emitted[Len(emitted)].updated_items = KeyList(newer)
                  /\ emitted[Len(emitted)].count = Cardinality(newer)

\* C10 as stated: the ChangeSet of a cycle is exactly the identifiers of the
\* candidate map whose highTime or lowTime is strictly greater than the
\* current one.
C10_DetectRule ==
    \A c \in Calls : pc[c] \in {"persist", "notify", "refresh"} =>
        DOMAIN updated_items = Newer(current_prices, latest_prices)

\* C11: newer timestamp wins whatever the price: once a cycle has detected
\* its changes, every identifier whose candidate has a strictly newer
\* highTime than the row the cycle read is in the ChangeSet with the
\* candidate's high price and highTime, be the price lower, equal or higher;
\* and once the batch-upsert has committed, the persisted high price and
\* highTime of that identifier are the candidate's.
C11_NewerHighWins ==
    \A c \in Calls : pc[c] \in {"persist", "notify", "refresh"} =>
        \A id \in DOMAIN latest_prices :
            latest_prices[id].highTime > CurrentHighTime(current_prices, id) =>
                /\ id \in DOMAIN updated_items
                /\ updated_items[id].high = latest_prices[id].high
                /\ updated_items[id].highTime = latest_prices[id].highTime
                /\ pc[c] \in {"notify", "refresh"} =>
                      /\ id \in DOMAIN store
                      /\ store[id].high_price = latest_prices[id].high
                      /\ store[id].high_time = latest_prices[id].highTime

\* Scenario A: the row read was high 199 at 1000, the candidate is high 197
\* at 1005, and the batch-upsert has committed 197 at 1005.
C11_Witness ==
    \E c \in Calls :
        /\ pc[c] = "notify"
        /\ 2 \in DOMAIN current_prices
        /\ 2 \in DOMAIN latest_prices
        /\ current_prices[2].high_price = 199
        /\ current_prices[2].high_time = 1000
        /\ latest_prices[2].high = 197
        /\ latest_prices[2].highTime = 1005
        /\ store[2].high_price = 197
        /\ store[2].high_time = 1005

\* C12: an equal timestamp is not a change: once a cycle has detected its
\* changes, an identifier whose candidate has a highTime and a lowTime both
\* less than or equal to those of the row the cycle read is not in the
\* ChangeSet, whatever its prices, and through the rest of the cycle the
\* persisted row of that identifier is the row the cycle read.
C12_EqualIsNoChange ==
    \A c \in Calls : pc[c] \in {"persist", "notify", "refresh"} =>
        \A id \in DOMAIN latest_prices :
            (/\ latest_prices[id].highTime <= CurrentHighTime(current_prices, id)
             /\ latest_prices[id].lowTime <= CurrentLowTime(current_prices, id)) =>
                /\ id \notin DOMAIN updated_items
                /\ RowOf(store, id) = RowOf(current_prices, id)

\* Scenario B: a candidate with the timestamps of the persisted row and
\* other prices went through a cycle that committed another identifier.
C12_Witness ==
    \E c \in Calls, id \in DOMAIN latest_prices \cap DOMAIN current_prices :
        /\ pc[c] = "refresh"
        /\ Len(emitted) = 2
        /\ latest_prices[id].highTime = current_prices[id].high_time
        /\ latest_prices[id].lowTime = current_prices[id].low_time
        /\ latest_prices[id].high # current_prices[id].high_price
        /\ latest_prices[id].low # current_prices[id].low_price
        /\ store[id] = current_prices[id]

C15_LockReleased ==
    /\ \A c \in Calls : (lock = c) ~> (lock # c)
    /\ [](\A c \in Calls : lock = c => pc[c] \in CycleStages)

\* Cycles have ended by an exception of the notifier and by a cancellation,
\* and the lock is free.
C15_Witness ==
    /\ lock = NoCaller
    /\ \E c, d \in Calls : pc[c] = "notifyFailed" /\ pc[d] = "cancelled"

\* The step answers the i-th fetch in flight.
Served(i) ==
    /\ i \in 1..Len(fetches)
    /\ fetches[i].status = "pending"
    /\ Len(fetches') = Len(fetches)
    /\ fetches'[i].status # "pending"

C17_ReadsNeverFail ==
    /\ [](\A i \in 1..Len(fetches) : fetches[i].status \in {"pending", "ok"})
    /\ [][\A c \in Calls :
             (pc[c] \in CycleStages /\ pc'[c] \in {"fetchFailed", "writeFailed"}) =>
                 /\ fetches' = fetches
                 /\ items' = items
                 /\ error' = error]_vars
    /\ [](\A id \in Ids \cup {UnknownId} :
             LET got == FetchItem(GetItem(ReaderView(store, updated_items, txn), id))
             IN  IF id \in Ids
                 THEN got.error = NoError /\ got.item = RowOf(store, id)
                 ELSE got.error = "Item not found")

\* A read was answered with persisted rows, and the cycle it triggered has
\* failed since.
C17_Witness ==
    \E i \in 1..Len(fetches) :
        /\ fetches[i].status = "ok"
        /\ DOMAIN fetches[i].items # {}
        /\ fetches[i].call # NoCaller
        /\ pc[fetches[i].call] \in {"fetchFailed", "writeFailed"}

\* C18 as stated: once a refresh is due (and the run has a call left to
\* make), a cycle is eventually under way, whether or not a read arrives:
\* at process start, after a failed cycle, after the key has expired.
C18_NoMissedUpdates ==
    (IsDue /\ \E c \in Calls : pc[c] = "idle") ~> (InCycle # {})

Delivered(i) ==
    /\ i \in 1..Len(fetches)
    /\ lastUpdated' # lastUpdated
    /\ fetches' = Without(Supersede(fetches, i), i)

C21_NoDeletion ==
    /\ [](\A c \in Calls : pc[c] \in {"persist", "notify", "refresh"} =>
             \A id \in DOMAIN current_prices \ DOMAIN latest_prices :
                 RowOf(store, id) = {current_prices[id]})
    /\ [][DOMAIN store \subseteq DOMAIN store']_vars

\* A cycle has committed a row for one identifier from a snapshot that
\* lacks the other, persisted, identifier.
C21_Witness ==
    \E c \in Calls, id \in DOMAIN current_prices \ DOMAIN latest_prices :
        /\ pc[c] = "notify"
        /\ DOMAIN updated_items # {}
        /\ store # current_prices
        /\ store[id] = current_prices[id]

\* The high half and the low half of the row of an identifier, absent
\* values being Null.
HighHalf(rows, id) ==
    IF id \in DOMAIN rows THEN <<rows[id].high_price, rows[id].high_time>> ELSE <<Null, Null>>

LowHalf(rows, id) ==
    IF id \in DOMAIN rows THEN <<rows[id].low_price, rows[id].low_time>> ELSE <<Null, Null>>

\* C22: field-wise update: once the batch-upsert of a cycle has committed,
\* for every identifier of the snapshot the half (high or low) whose
\* candidate timestamp did not strictly advance over the row the cycle read
\* is persisted as it was read, and for every identifier of the ChangeSet
\* the half whose timestamp strictly advanced is the candidate's.
C22_FieldWise ==
    \A c \in Calls : pc[c] \in {"notify", "refresh"} =>
        \A id \in DOMAIN latest_prices :
            LET cand == latest_prices[id]
                hNew == cand.highTime > CurrentHighTime(current_prices, id)
                lNew == cand.lowTime > CurrentLowTime(current_prices, id)
            IN  /\ ~hNew => HighHalf(store, id) = HighHalf(current_prices, id)
                /\ ~lNew => LowHalf(store, id) = LowHalf(current_prices, id)
                /\ id \in DOMAIN updated_items =>
                      /\ hNew => HighHalf(store, id) = <<cand.high, cand.highTime>>
                      /\ lNew => LowHalf(store, id) = <<cand.low, cand.lowTime>>

\* Scenario A: the row read was low 197 at 1005, the candidate of the
\* ChangeSet has a newer highTime and low 192 at 1000, and the batch-upsert
\* has committed the new high half beside low 197 at 1005.
C22_Witness ==
    \E c \in Calls :
        /\ pc[c] = "notify"
        /\ 2 \in DOMAIN current_prices
        /\ 2 \in DOMAIN updated_items
        /\ LowHalf(current_prices, 2) = <<197, 1005>>
        /\ updated_items[2].low = 192
        /\ updated_items[2].lowTime = 1000
        /\ HighHalf(store, 2) # HighHalf(current_prices, 2)
        /\ LowHalf(store, 2) = <<197, 1005>>

\* The stage of the state machine a call is in.  The cache refresh, the
\* last step of _update_from_osrs_api, closes the stage the cycle did last:
\* Notifying, or Diffing when the ChangeSet is empty.
Stage(p, changes) ==
    CASE p = "fetch"   -> "Fetching"
      [] p = "diff"    -> "Diffing"
      [] p = "persist" -> "Persisting"
      [] p = "notify"  -> "Notifying"
      [] p = "refresh" -> IF DOMAIN changes # {} THEN "Notifying" ELSE "Diffing"
      [] OTHER         -> "Idle"

\* The transitions of the state machine, the failure exits among them.
StageTransitions ==
    { <<"Idle", "Fetching">>, <<"Fetching", "Diffing">>, <<"Diffing", "Persisting">>,
      <<"Persisting", "Notifying">>, <<"Notifying", "Idle">>,
      <<"Fetching", "Idle">>, <<"Persisting", "Idle">> }

FailureExits == { <<"Fetching", "Idle">>, <<"Persisting", "Idle">> }

NoCycleYet == \A c \in Calls : pc[c] \in {"idle", "checkLock", "acquire"}

C29_OnlyBatchWrite ==
    [][store' # store =>
          \E c \in Calls :
              /\ pc[c] = "persist"
              /\ pc'[c] = "notify"
              /\ lock = c
              /\ store' = WriteRows(store, updated_items, DOMAIN updated_items)
              /\ \A id \in Ids \ DOMAIN updated_items : RowOf(store', id) = RowOf(store, id)]_vars

\* Rows are persisted, a read of them has completed, one call has returned
\* without synchronizing and another has run its cycle to the end.
C29_Witness ==
    \E c, d \in Calls :
        /\ pc[c] = "skipped"
        /\ pc[d] = "synced"
        /\ DOMAIN store # {}
        /\ lastUpdated = 1
        /\ items = store

\* C30 as stated: when a cycle has done all but its cache refresh (it
\* completes successfully with that step, which writes no row), for every
\* identifier of its snapshot the persisted highTime is at least the
\* candidate's highTime and the persisted lowTime at least the candidate's
\* lowTime, an absent row or timestamp counting as 0.
C30_CatchUp ==
    \A c \in Calls : pc[c] = "refresh" =>
        \A id \in DOMAIN latest_prices :
            /\ CurrentHighTime(store, id) >= latest_prices[id].highTime
            /\ CurrentLowTime(store, id) >= latest_prices[id].lowTime

\* The (price, timestamp) pairs that the external source reports together.
ReportedHigh == { <<cand.high, cand.highTime>> : cand \in Candidates }

ReportedLow == { <<cand.low, cand.lowTime>> : cand \in Candidates }

\* C31: price and timestamp stay paired: the persisted (high price, high
\* time) of an identifier is a pair that the source reports together, and
\* so is the persisted (low price, low time); and a step that changes a half
\* of a row makes it the pair of the candidate of that identifier in the
\* snapshot the cycle fetched, never a price beside the timestamp of another
\* observation.
C31_Paired ==
    /\ [](\A id \in DOMAIN store :
             /\ HighHalf(store, id) \in ReportedHigh \cup {<<Null, Null>>}
             /\ LowHalf(store, id) \in ReportedLow \cup {<<Null, Null>>})
    /\ [][\A id \in DOMAIN store' :
             /\ HighHalf(store', id) # HighHalf(store, id) =>
                   /\ id \in DOMAIN latest_prices
                   /\ HighHalf(store', id) = <<latest_prices[id].high, latest_prices[id].highTime>>
             /\ LowHalf(store', id) # LowHalf(store, id) =>
                   /\ id \in DOMAIN latest_prices
                   /\ LowHalf(store', id) = <<latest_prices[id].low, latest_prices[id].lowTime>>]_vars

\* A persisted row holds the high pair of one snapshot beside the low pair
\* of another: no candidate reports the two together.
C31_Witness ==
    \E id \in DOMAIN store :
        /\ HighHalf(store, id) = <<197, 1005>>
        /\ LowHalf(store, id) = <<197, 1005>>
        /\ \A cand \in Candidates :
              <<cand.high, cand.highTime, cand.low, cand.lowTime>> # <<197, 1005, 197, 1005>>

Untimed(cand) == cand.highTime = Null /\ cand.lowTime = Null

\* The identifiers that a sequence of identifiers lists.
Listed(q) == { q[i] : i \in 1..Len(q) }

C34_LatestWins ==
    [][\A i \in 1..Len(fetches) : Delivered(i) => ~fetches[i].superseded]_vars

\* C35 as stated: isLoading is true exactly when at least one fetchItems
\* call is in flight.
C35_LoadingFlag == isLoading <=> (Len(fetches) > 0)

\* The step ends the i-th fetch in flight by its failure.
FetchFailed(i) ==
    /\ i \in 1..Len(fetches)
    /\ lastUpdated' = lastUpdated
    /\ fetches' = Without(fetches, i)

\* C36: client fetch failure: the step in which a fetchItems call fails
\* leaves items and lastUpdated as they were, sets error to the failure
\* message and clears isLoading; the step that starts a fetch clears error
\* (and sets isLoading); and the step in which a fetch succeeds replaces
\* items by its response, leaving error as it was.
C36_FetchFailure ==
    [][/\ \A i \in 1..Len(fetches) : FetchFailed(i) =>
             /\ items' = items
             /\ error' = "Failed to fetch"
             /\ ~isLoading'
       /\ Len(fetches') = Len(fetches) + 1 => (error' = NoError /\ isLoading')
       /\ \A i \in 1..Len(fetches) : Delivered(i) =>
             /\ items' = fetches[i].items
             /\ error' = error
             /\ ~isLoading']_vars

\* A fetch has failed after two loads, the second of which replaced the
\* items by the persisted rows: the rows are still shown, beside the error.
C36_Witness ==
    /\ error = "Failed to fetch"
    /\ ~isLoading
    /\ fetches = << >>
    /\ lastUpdated = 2
    /\ DOMAIN items # {}
    /\ items = store

\* C37: computing the filtered and sorted view leaves the items array that
\* ItemsTable received in its original order and content, whatever the
\* filters (none included), the sort field and the sort direction.
C37_InputUntouched == [][tableItems' = tableItems]_vars

TypeOK ==
    /\ pc \in [Calls -> {"idle", "checkLock", "acquire"} \cup CycleStages \cup Outcomes \cup Abandoned]
    /\ lock \in Calls \cup {NoCaller}
    /\ fresh \in BOOLEAN
    /\ DOMAIN store \subseteq Ids
    /\ latest_prices \in Snapshots
    /\ DOMAIN updated_items \subseteq DOMAIN latest_prices
    /\ txn \subseteq DOMAIN updated_items
    /\ Len(emitted) <= MaxCalls
    /\ source \subseteq Snapshots
    /\ Cardinality(source) <= 1
    /\ mounted \in BOOLEAN
    /\ connected \in BOOLEAN
    /\ heard \in 0..Len(emitted)
    /\ Len(fetches) <= MaxCalls + 1
    /\ \A i \in 1..Len(fetches) :
          /\ fetches[i].by \in 0..MaxCalls
          /\ fetches[i].status \in {"pending", "ok"}
          /\ fetches[i].call \in Calls \cup {NoCaller}
          /\ DOMAIN fetches[i].items \subseteq Ids
    /\ DOMAIN items \subseteq Ids
    /\ isLoading \in BOOLEAN
    /\ error \in {NoError, "Failed to fetch"}
    /\ lastUpdated \in 0..(MaxCalls + 1)
    /\ tableItems \in ItemArrays
    /\ sortField \in SortFields
    /\ sortDirection \in {"asc", "desc"}
    /\ filterText \in FilterTexts
    /\ showMembersOnly \in BOOLEAN
    /\ showPricedOnly \in BOOLEAN
    /\ \A i \in DOMAIN filteredAndSortedItems : filteredAndSortedItems[i] \in TableItems
    /\ rendered \in BOOLEAN
====
